---- MODULE Spec2Model ----
(***************************************************************************)
(* Model of the brute-force risk estimation engine of the WiFi checker     *)
(* (src/unnamed/part_009, lines 491-1369): the dictionary-attack           *)
(* simulator, the generation-attack simulator, the combiner / risk         *)
(* classifier and the legacy closed-form simulator.                        *)
(*                                                                         *)
(* JavaScript strings are TLA+ strings; the String and Array methods the   *)
(* code calls (toLowerCase, substr, padEnd, replace, includes, Set) are    *)
(* operators that compute what the method computes.  Math.random() is a    *)
(* stream of fractions num / RandDen; new Date().getFullYear() reads the   *)
(* variable now.                                                           *)
(***************************************************************************)
EXTENDS Integers, Sequences, FiniteSets, TLC

VARIABLES
    op,       \* the exported function that was called ("none" before the call)
    args,     \* the arguments of the call
    now,      \* the calendar year the process clock shows
    result,   \* what the call returned, or the error it raised
    previous, \* what the preceding call with the same arguments returned
    tables    \* the content of the two module-level tables

vars == <<op, args, now, result, previous, tables>>

----------------------------------------------------------------------------
(* Bounds of the model *)

\* number of Math.random() values in one random stream (the stream repeats)
RandLen == 2

\* Math.random() returns num / RandDen with num in 0 .. RandDen - 1
RandDen == 10000

\* how many years the process clock can advance
MaxYears == 1

----------------------------------------------------------------------------
(* JavaScript String methods *)

Min(a, b) == IF a < b THEN a ELSE b
Max(a, b) == IF a > b THEN a ELSE b

LowerCaseLetters == "abcdefghijklmnopqrstuvwxyz"
UpperCaseLetters == "ABCDEFGHIJKLMNOPQRSTUVWXYZ"

charAt(s, i) == SubSeq(s, i + 1, i + 1)

\* position (1-based) of the one-character string c in alphabet, 0 if absent
LetterIndex(alphabet, c) ==
    IF \E i \in 1..Len(alphabet) : SubSeq(alphabet, i, i) = c
    THEN CHOOSE i \in 1..Len(alphabet) : SubSeq(alphabet, i, i) = c
    ELSE 0

LowerChar(c) ==
    LET k == LetterIndex(UpperCaseLetters, c)
    IN  IF k = 0 THEN c ELSE SubSeq(LowerCaseLetters, k, k)

UpperChar(c) ==
    LET k == LetterIndex(LowerCaseLetters, c)
    IN  IF k = 0 THEN c ELSE SubSeq(UpperCaseLetters, k, k)

\* the strings parts[lo..hi] joined in order (computed by halves to keep the
\* recursion shallow)
RECURSIVE joinRange(_, _, _)
joinRange(parts, lo, hi) ==
    IF lo > hi THEN ""
    ELSE IF lo = hi THEN parts[lo]
    ELSE joinRange(parts, lo, (lo + hi) \div 2)
            \o joinRange(parts, (lo + hi) \div 2 + 1, hi)

\* the string made of what F gives for each character of s
mapChars(s, F(_)) ==
    joinRange([i \in 1..Len(s) |-> F(SubSeq(s, i, i))], 1, Len(s))

\* String.prototype.toLowerCase
toLowerCase(s) == mapChars(s, LowerChar)

\* String.prototype.toUpperCase
toUpperCase(s) == mapChars(s, UpperChar)

\* String.prototype.substr(start, length) for start >= 0: a length that is
\* zero or negative gives the empty string
substr(s, start, length) ==
    IF length <= 0 \/ start >= Len(s)
    THEN ""
    ELSE SubSeq(s, start + 1, Min(start + length, Len(s)))

\* String.prototype.slice(start) for start >= 0
slice(s, start) == IF start >= Len(s) THEN "" ELSE SubSeq(s, start + 1, Len(s))

\* String.prototype.repeat(count) for count >= 0
repeat(s, count) ==
    LET f[i \in 0..count] == IF i = 0 THEN "" ELSE f[i - 1] \o s
    IN  f[count]

\* String.prototype.padEnd(targetLength, fill): no padding when the target
\* is not longer than the string
padEnd(s, targetLength, fill) ==
    IF targetLength <= Len(s)
    THEN s
    ELSE s \o substr(repeat(fill, targetLength - Len(s)), 0, targetLength - Len(s))

\* String.prototype.indexOf(search): 0-based position of the first
\* occurrence, -1 if there is none
indexOf(s, search) ==
    LET places == {i \in 0..(Len(s) - Len(search)) :
                        SubSeq(s, i + 1, i + Len(search)) = search}
    IN  IF places = {} THEN -1
        ELSE CHOOSE i \in places : \A j \in places : i <= j

\* GetSubstitution of ECMAScript for a string pattern (no capture groups):
\* in the replacement text "$$" stands for "$", "$&" for the matched text
\* and "$'" for the text after the match.  The fourth rule, a dollar sign
\* followed by a grave accent for the text before the match, needs a
\* character a TLA+ string cannot hold: no string of the model contains it.
GetSubstitution(matched, after, replacement) ==
    LET n == Len(replacement)
        \* f[i] = expansion of the replacement text from position i on
        f[i \in 1..(n + 1)] ==
            IF i > n THEN ""
            ELSE LET c == SubSeq(replacement, i, i)
                     d == IF i < n THEN SubSeq(replacement, i + 1, i + 1) ELSE ""
                 IN  IF c = "$" /\ d = "$" THEN "$" \o f[i + 2]
                     ELSE IF c = "$" /\ d = "&" THEN matched \o f[i + 2]
                     ELSE IF c = "$" /\ d = "'" THEN after \o f[i + 2]
                     ELSE c \o f[i + 1]
    IN  f[1]

\* String.prototype.replace(search, replacement) with a string pattern:
\* only the first occurrence is replaced
replace(s, search, replacement) ==
    LET p == indexOf(s, search)
    IN  IF p = -1 THEN s
        ELSE LET before == substr(s, 0, p)
                 after  == slice(s, p + Len(search))
             IN  before \o GetSubstitution(search, after, replacement) \o after

\* String.prototype.replace(new RegExp(letter, 'g'), replacement) for a
\* one-letter pattern; a replacement that is a lone "$" is literal
replaceAll(s, letter, replacement) ==
    mapChars(s, LAMBDA c : IF c = letter THEN replacement ELSE c)

----------------------------------------------------------------------------
(* JavaScript Array methods *)

\* Array.prototype.includes
includes(list, x) == \E i \in 1..Len(list) : list[i] = x

\* the elements of list[lo..hi] without repetition, each at the place of its
\* first occurrence (computed by halves to keep the recursion shallow)
RECURSIVE uniqRange(_, _, _)
uniqRange(list, lo, hi) ==
    IF lo > hi THEN << >>
    ELSE IF lo = hi THEN << list[lo] >>
    ELSE LET mid   == (lo + hi) \div 2
             left  == uniqRange(list, lo, mid)
             right == uniqRange(list, mid + 1, hi)
             seen  == {left[i] : i \in 1..Len(left)}
         IN  left \o SelectSeq(right, LAMBDA x : x \notin seen)

\* the list as it is, repeated elements kept
uniqKeepAll(list) == list

\* [...new Set(list)]: the first occurrence of every element, in order
uniq(list) == uniqRange(list, 1, Len(list))

\* Array.prototype.slice(0, n)
sliceFirst(list, n) == SubSeq(list, 1, Min(n, Len(list)))

\* Array.prototype.map
map(list, F(_)) == [i \in 1..Len(list) |-> F(list[i])]

----------------------------------------------------------------------------
(* The random source *)

\* the i-th value (i = 0, 1, ...) Math.random() returns, as a numerator
\* over RandDen
Random(rng, i) == rng[(i % Len(rng)) + 1]

\* Math.floor(Math.random() * n)
FloorRandom(rng, i, n) == (Random(rng, i) * n) \div RandDen

\* Math.random() < tenths / 10
RandomBelow(rng, i, tenths) == Random(rng, i) * 10 < tenths * RandDen

----------------------------------------------------------------------------
(* COMMON_WIFI_PASSWORDS and PASSWORD_GENERATION_PATTERNS *)

top100 ==
  <<
    "password", "12345678", "password123", "admin", "qwerty123", "password1",
    "123456789", "welcome", "internet", "wifi", "changeme", "guest",
    "letmein", "connect", "wireless", "mypassword", "default", "secret",
    "00000000", "11111111", "router", "netgear", "linksys", "dlink",
    "access", "security", "network", "home", "family", "private",
    "test123", "admin123", "root123", "user123", "demo123", "temp123",
    "pass123", "1qaz2wsx", "qwerty", "abc123", "trustno1", "monkey",
    "dragon", "mustang", "starwars", "football", "baseball", "basketball",
    "soccer", "hockey", "princess", "sunshine", "iloveyou", "welcome1",
    "hello123", "computer", "freedom", "whatever", "michael", "jennifer",
    "superman", "batman", "master", "jordan", "harley", "robert",
    "matthew", "daniel", "andrew", "joshua", "anthony", "william",
    "david", "richard", "thomas", "charles", "steven", "dennis",
    "joseph", "nathan", "samantha", "gregory", "patrick", "benjamin",
    "zachary", "samsung", "apple123", "google123", "facebook", "twitter",
    "instagram", "youtube", "amazon123", "netflix", "spotify", "windows",
    "microsoft", "office365", "outlook", "hotmail", "gmail123", "yahoo123",
    "aol123", "verizon", "comcast", "spectrum", "xfinity", "frontier",
    "centurylink", "charter", "password!", "Password1", "Password123", "Welcome1",
    "Admin123", "qwertyui", "asdfghjk", "zxcvbnm", "poiuytre", "lkjhgfds",
    "123qwe", "321cba", "456def", "789ghi", "147adg" >>

routerDefaults ==
  ("Netgear" :> << "password", "password1", "admin", "1234567890", "netgear123" >>) @@
  ("Linksys" :> << "admin", "password", "linksys", "1234567890", "cisco123" >>) @@
  ("D-Link" :> << "admin", "password", "dlink", "1234567890", "blank" >>) @@
  ("TP-Link" :> << "admin", "password", "tplink", "1234567890", "tp123" >>) @@
  ("ASUS" :> << "admin", "password", "asus", "1234567890", "router" >>) @@
  ("Cisco" :> << "cisco", "password", "admin", "1234567890", "enable" >>) @@
  ("Apple" :> << "public", "private", "apple", "airport", "express" >>) @@
  ("Belkin" :> << "admin", "password", "belkin", "1234567890", "blank" >>) @@
  ("Buffalo" :> << "admin", "password", "buffalo", "root", "1234567890" >>) @@
  ("Motorola" :> << "motorola", "admin", "password", "1234567890", "operator" >>)

ssidPatterns ==
  <<
    "{ssid}", "{ssid}123", "{ssid}1", "{ssid}2023", "{ssid}2024", "{ssid}2025",
    "{ssid}!", "{ssid}password", "password{ssid}", "{ssid}_wifi", "{ssid}_home", "{ssid}_guest",
    "{ssid}_secure", "{ssid}_admin" >>

locationBased ==
  <<
    "home123", "house123", "family123", "office123", "work123", "school123",
    "guest123", "visitor123", "public123", "cafe123", "restaurant", "hotel123",
    "apartment", "building", "room123", "floor123", "unit123", "suite123",
    "lobby123", "reception" >>

datePatterns ==
  <<
    "20232023", "20242024", "20252025", "12345678", "87654321", "01011970",
    "01012000", "12311999", "06151985", "04201990", "january1", "december",
    "birthday", "anniversary", "christmas" >>

brandNames ==
  <<
    "google123", "microsoft", "facebook", "amazon123", "apple123", "samsung123",
    "intel123", "nvidia123", "amd123", "oracle123", "ibm123", "dell123",
    "hp123", "lenovo123", "huawei123" >>

numberPatterns ==
  <<
    "123", "321", "456", "789", "147", "258", "369", "000", "111", "222",
    "333", "444", "555", "666", "777", "888", "999", "12", "21", "34",
    "43", "56", "65", "78", "87", "90", "09", "2023", "2024", "2025",
    "1234", "4321", "6789", "9876" >>

specialPatterns ==
  <<
    "!", "@", "#", "$", "%", "&", "*", "+", "=", "?",
    "!!", "@@", "##", "$$", "!@", "@#", "#$", "$%", "123!", "456@",
    "789#", "!@#", "@#$", "#$%" >>

\* PASSWORD_GENERATION_PATTERNS.substitutions, in the order Object.entries
\* lists its keys
substitutions ==
    << [letter |-> "a", replacements |-> << "@", "4" >>],
       [letter |-> "e", replacements |-> << "3" >>],
       [letter |-> "i", replacements |-> << "1", "!" >>],
       [letter |-> "o", replacements |-> << "0" >>],
       [letter |-> "s", replacements |-> << "$", "5" >>],
       [letter |-> "t", replacements |-> << "7" >>],
       [letter |-> "l", replacements |-> << "1" >>],
       [letter |-> "g", replacements |-> << "9" >> ] >>

\* the property names every object literal inherits from Object.prototype
ObjectPrototypeKeys ==
    { "constructor", "toString", "toLocaleString", "valueOf", "hasOwnProperty",
      "isPrototypeOf", "propertyIsEnumerable", "__proto__" }

\* COMMON_WIFI_PASSWORDS.routerDefaults[vendor]: an own key gives its array,
\* an inherited name gives a function or object (truthy, not iterable) and
\* any other name gives undefined
routerDefaultsLookup(vendor) ==
    IF vendor \in DOMAIN routerDefaults
    THEN [type |-> "array", items |-> routerDefaults[vendor]]
    ELSE IF vendor \in ObjectPrototypeKeys
         THEN [type |-> "inherited", items |-> << >>]
         ELSE [type |-> "undefined", items |-> << >>]

\* COMMON_WIFI_PASSWORDS (lines 666-738) as the module defines it
COMMON_WIFI_PASSWORDS ==
    [top100         |-> top100,
     routerDefaults |-> routerDefaults,
     ssidPatterns   |-> ssidPatterns,
     locationBased  |-> locationBased,
     datePatterns   |-> datePatterns,
     brandNames     |-> brandNames]

\* PASSWORD_GENERATION_PATTERNS (lines 744-773) as the module defines it;
\* wordCombinations is read by no function
PASSWORD_GENERATION_PATTERNS ==
    [numberPatterns  |-> numberPatterns,
     specialPatterns |-> specialPatterns,
     substitutions   |-> substitutions]

----------------------------------------------------------------------------
(* Arguments *)

\* routerInfo is null, or an object whose vendor is a string ("" stands for
\* a vendor that is missing or empty: both are falsy)
NullRouter == [isNull |-> TRUE, vendor |-> ""]
Router(v) == [isNull |-> FALSE, vendor |-> v]

\* routerInfo && routerInfo.vendor && the vendor is a key of routerDefaults
hasVendorOfTable(routerInfo) ==
    ~routerInfo.isNull /\ routerInfo.vendor \in {"Netgear", "Linksys", "D-Link",
        "TP-Link", "ASUS", "Cisco", "Apple", "Belkin", "Buffalo", "Motorola"}

\* routerInfo && routerInfo.vendor
hasVendor(routerInfo) == ~routerInfo.isNull /\ routerInfo.vendor # ""

\* routerInfo && routerInfo.vendor && routerDefaults[routerInfo.vendor]
vendorDefaults(routerInfo) ==
    IF hasVendor(routerInfo)
    THEN routerDefaultsLookup(routerInfo.vendor)
    ELSE [type |-> "undefined", items |-> << >>]

\* empty (hidden network), mixed case, a lowercase top-100 word, one with a
\* replacement pattern of String.replace, one that collides with a year
\* pattern, one longer than 16 characters, one that is a built-in base word
\* of the generators
SSIDs == {"", "HomeWiFi", "guest", "admin$'", "2025HOME", "MyVeryLongNetworkName",
          "Home"}

\* the five encryption types and a string the tables do not know
Encryptions == {"OPEN", "WEP", "WPA", "WPA2", "WPA3", "WPA2-Enterprise"}

\* no router info, a vendor of the table, a vendor outside it, and a vendor
\* string that names an inherited member of the table object
Routers == {NullRouter, Router("Netgear"), Router("Generic"), Router("constructor")}

TypeError == [status |-> "TypeError"]

\* a call that raises a RangeError returns nothing
RangeError == [status |-> "RangeError"]

----------------------------------------------------------------------------
(* Dictionary-attack simulator *)

\* Math.ceil(a / b) for a >= 0, b > 0
CeilDiv(a, b) == (a + b - 1) \div b

\* the candidate list without the top-common list
dictionaryCandidatesWithoutTop100(ssid, routerInfo) ==
    LET ssidPasswords ==
            [i \in 1..Len(ssidPatterns) |->
                replace(ssidPatterns[i], "{ssid}",
                        IF ssid # "" THEN ssid ELSE "network")]
    IN  vendorDefaults(routerInfo).items \o ssidPasswords
            \o locationBased \o datePatterns \o brandNames

\* the candidate list before de-duplication (lines 834-852)
dictionaryCandidates(ssid, routerInfo) ==
    LET ssidPasswords ==
            [i \in 1..Len(ssidPatterns) |->
                replace(ssidPatterns[i], "{ssid}",
                        IF ssid # "" THEN ssid ELSE "network")]
    IN  top100 \o vendorDefaults(routerInfo).items \o ssidPasswords
            \o locationBased \o datePatterns \o brandNames

\* passwordList after line 859
dictionaryPasswordList(ssid, routerInfo) ==
    uniq(dictionaryCandidates(ssid, routerInfo))

\* passwordList for every SSID and router of the model, computed once
passwordListOf ==
    [s \in SSIDs, r \in Routers |-> dictionaryPasswordList(s, r)]

\* results.passwordCategories (lines 839, 847, 854-856)
passwordCategoriesOf(routerInfo) ==
    LET fixed == ("ssidBased" :> Len(ssidPatterns))
                 @@ ("locationBased" :> Len(locationBased))
                 @@ ("dateBased" :> Len(datePatterns))
                 @@ ("brandBased" :> Len(brandNames))
    IN  IF vendorDefaults(routerInfo).type = "array"
        THEN ("routerDefaults" :> Len(vendorDefaults(routerInfo).items)) @@ fixed
        ELSE fixed

\* vulnerableSSIDPatterns (lines 870-881)
vulnerableSSIDPatterns(ssid) ==
    LET l == toLowerCase(ssid)
    IN  << l, l \o "123", l \o "1", l \o "2024", l \o "2025",
           "password" \o l, l \o "wifi", l \o "password", l \o "!", l \o "@" >>

\* commonWeakPasswords with a last entry that is in none of the tables
commonWeakPasswordsOffList ==
    << "password", "12345678", "password123", "admin", "qwerty123!?" >>

\* commonWeakPasswords (line 921)
commonWeakPasswords ==
    << "password", "12345678", "password123", "admin", "qwerty123" >>

\* attackSpeedPerSecond (lines 941-943)
attackSpeedPerSecond(encryption) ==
    IF encryption = "WPA3" THEN 100
    ELSE IF encryption = "WPA2" THEN 1000
    ELSE IF encryption = "WPA" THEN 5000
    ELSE 10000

\* results.attackSuccess without the OPEN case
attackSuccessOfWithoutOpen(potentialMatches, encryption) ==
    Len(potentialMatches) > 0 \/ encryption = "WEP"

\* results.attackSuccess (lines 948-949)
attackSuccessOf(potentialMatches, encryption) ==
    Len(potentialMatches) > 0 \/ (encryption = "WEP" \/ encryption = "OPEN")

\* dictionaryRun where the attempts of a Common Weak record start at 0
dictionaryRunZeroAttempts(ssid, networkInfo, routerInfo, rng, first) ==
    LET passwordList == passwordListOf[ssid, routerInfo]
        hits == IF ssid # ""
                THEN SelectSeq(vulnerableSSIDPatterns(ssid),
                               LAMBDA p : includes(passwordList, p))
                ELSE << >>
        ssidMatches ==
            [k \in 1..Len(hits) |->
                [password  |-> hits[k],
                 category  |-> "SSID-based",
                 risk      |-> "HIGH",
                 reason    |-> "Password derived from network name",
                 crackedIn |-> FloorRandom(rng, first + 2 * (k - 1), 30) + 1,
                 attempts  |-> FloorRandom(rng, first + 2 * (k - 1) + 1, 1000) + 1]]
        d1 == first + 2 * Len(hits)
        defaults == vendorDefaults(routerInfo)
        tryDefault == defaults.type = "array"
        foundDefault == tryDefault /\ RandomBelow(rng, d1, 6)
        defaultMatches ==
            IF foundDefault
            THEN << [password  |-> defaults.items[FloorRandom(rng, d1 + 1, Len(defaults.items)) + 1],
                     category  |-> "Router Default",
                     risk      |-> "CRITICAL",
                     reason    |-> "Common " \o routerInfo.vendor \o " default password",
                     crackedIn |-> FloorRandom(rng, d1 + 2, 10) + 1,
                     attempts  |-> FloorRandom(rng, d1 + 3, 50) + 1] >>
            ELSE << >>
        d2 == IF foundDefault THEN d1 + 4 ELSE IF tryDefault THEN d1 + 1 ELSE d1
        foundWeak == RandomBelow(rng, d2, 3)
        weakMatches ==
            IF foundWeak
            THEN << [password  |-> commonWeakPasswords[FloorRandom(rng, d2 + 1, Len(commonWeakPasswords)) + 1],
                     category  |-> "Common Weak",
                     risk      |-> "CRITICAL",
                     reason    |-> "Top 100 most common passwords",
                     crackedIn |-> FloorRandom(rng, d2 + 2, 5) + 1,
                     attempts  |-> FloorRandom(rng, d2 + 3, 25)] >>
            ELSE << >>
        d3 == IF foundWeak THEN d2 + 4 ELSE d2 + 1
        potentialMatches == ssidMatches \o defaultMatches \o weakMatches
    IN  [status             |-> "ok",
         testedPasswords    |-> Len(passwordList),
         potentialMatches   |-> potentialMatches,
         attackSuccess      |-> attackSuccessOf(potentialMatches, networkInfo.encryption),
         timeToBreak        |-> CeilDiv(Len(passwordList),
                                        attackSpeedPerSecond(networkInfo.encryption)),
         passwordCategories |-> passwordCategoriesOf(routerInfo),
         vulnerablePatterns |-> [k \in 1..Len(hits) |-> "SSID-based pattern: " \o hits[k]],
         successfulCracks   |-> potentialMatches,
         draws              |-> d3 - first]

\* The body of simulateDictionaryAttack from line 859 on, for a vendor
\* lookup that did not throw.  The call reads Math.random() from position
\* first of rng on; draws is the number of values it consumed.
dictionaryRun(ssid, networkInfo, routerInfo, rng, first) ==
    LET passwordList == passwordListOf[ssid, routerInfo]
        hits == IF ssid # ""
                THEN SelectSeq(vulnerableSSIDPatterns(ssid),
                               LAMBDA p : includes(passwordList, p))
                ELSE << >>
        ssidMatches ==
            [k \in 1..Len(hits) |->
                [password  |-> hits[k],
                 category  |-> "SSID-based",
                 risk      |-> "HIGH",
                 reason    |-> "Password derived from network name",
                 crackedIn |-> FloorRandom(rng, first + 2 * (k - 1), 30) + 1,
                 attempts  |-> FloorRandom(rng, first + 2 * (k - 1) + 1, 1000) + 1]]
        d1 == first + 2 * Len(hits)
        defaults == vendorDefaults(routerInfo)
        tryDefault == defaults.type = "array"
        foundDefault == tryDefault /\ RandomBelow(rng, d1, 6)
        defaultMatches ==
            IF foundDefault
            THEN << [password  |-> defaults.items[FloorRandom(rng, d1 + 1, Len(defaults.items)) + 1],
                     category  |-> "Router Default",
                     risk      |-> "CRITICAL",
                     reason    |-> "Common " \o routerInfo.vendor \o " default password",
                     crackedIn |-> FloorRandom(rng, d1 + 2, 10) + 1,
                     attempts  |-> FloorRandom(rng, d1 + 3, 50) + 1] >>
            ELSE << >>
        d2 == IF foundDefault THEN d1 + 4 ELSE IF tryDefault THEN d1 + 1 ELSE d1
        foundWeak == RandomBelow(rng, d2, 3)
        weakMatches ==
            IF foundWeak
            THEN << [password  |-> commonWeakPasswords[FloorRandom(rng, d2 + 1, Len(commonWeakPasswords)) + 1],
                     category  |-> "Common Weak",
                     risk      |-> "CRITICAL",
                     reason    |-> "Top 100 most common passwords",
                     crackedIn |-> FloorRandom(rng, d2 + 2, 5) + 1,
                     attempts  |-> FloorRandom(rng, d2 + 3, 25) + 1] >>
            ELSE << >>
        d3 == IF foundWeak THEN d2 + 4 ELSE d2 + 1
        potentialMatches == ssidMatches \o defaultMatches \o weakMatches
    IN  [status             |-> "ok",
         testedPasswords    |-> Len(passwordList),
         potentialMatches   |-> potentialMatches,
         attackSuccess      |-> attackSuccessOf(potentialMatches, networkInfo.encryption),
         timeToBreak        |-> CeilDiv(Len(passwordList),
                                        attackSpeedPerSecond(networkInfo.encryption)),
         passwordCategories |-> passwordCategoriesOf(routerInfo),
         vulnerablePatterns |-> [k \in 1..Len(hits) |-> "SSID-based pattern: " \o hits[k]],
         successfulCracks   |-> potentialMatches,
         draws              |-> d3 - first]

\* simulateDictionaryAttack: spreading an inherited member of routerDefaults
\* into push() (line 838) raises a TypeError, nothing is returned
simulateDictionaryAttack(ssid, networkInfo, routerInfo, rng, first) ==
    IF vendorDefaults(routerInfo).type = "inherited"
    THEN TypeError
    ELSE dictionaryRun(ssid, networkInfo, routerInfo, rng, first)

\* the tables after a call where passwordList is top100 itself and not a
\* copy of it: the push of line 850 lands in the table
tablesAfterDictionaryAttackShared(shared, ssid, routerInfo) ==
    [shared EXCEPT !.COMMON_WIFI_PASSWORDS.top100 = @ \o shared.COMMON_WIFI_PASSWORDS.locationBased]

\* the tables after simulateDictionaryAttack: line 834 spreads top100 into
\* a new array, the pushes of lines 838-852 go to that array, and the other
\* lists are read with map, spread and length only
tablesAfterDictionaryAttack(shared, ssid, routerInfo) == shared

----------------------------------------------------------------------------
(* Generators *)

\* the lists parts[lo..hi] concatenated in order (computed by halves to keep
\* the recursion shallow)
RECURSIVE concatRange(_, _, _)
concatRange(parts, lo, hi) ==
    IF lo > hi THEN << >>
    ELSE IF lo = hi THEN parts[lo]
    ELSE concatRange(parts, lo, (lo + hi) \div 2)
            \o concatRange(parts, (lo + hi) \div 2 + 1, hi)

\* list.forEach(x => passwords.push(...F(x))): the pushed strings, in order
concatMap(list, F(_)) ==
    concatRange([i \in 1..Len(list) |-> F(list[i])], 1, Len(list))

\* baseWords of generateWordCombinations (lines 1079-1089)
wordCombinationBaseWords(ssid, routerInfo) ==
    << "wifi", "home", "network", "secure", "access", "connect" >>
        \o (IF ssid # "" THEN << toLowerCase(ssid) >> ELSE << >>)
        \o (IF hasVendor(routerInfo) THEN << toLowerCase(routerInfo.vendor) >> ELSE << >>)

\* generateWordCombinations (lines 1077-1120)
generateWordCombinations(ssid, routerInfo) ==
    LET baseWords == wordCombinationBaseWords(ssid, routerInfo)
        pairs(word1) ==
            concatMap(baseWords, LAMBDA word2 :
                IF word1 # word2
                THEN << word1 \o word2, word1 \o word2 \o "123", word1 \o word2 \o "!",
                        word1 \o "_" \o word2, word1 \o "-" \o word2,
                        word1 \o "@" \o word2 >>
                ELSE << >>)
        numbers(word1) ==
            concatMap(numberPatterns, LAMBDA number :
                << word1 \o number, number \o word1 >>)
        specials(word1) ==
            concatMap(specialPatterns, LAMBDA special :
                << word1 \o special, special \o word1 >>)
    IN  uniq(concatMap(baseWords, LAMBDA word1 :
                pairs(word1) \o numbers(word1) \o specials(word1)))

\* applyLeetSpeak (lines 1180-1187): one Math.random() per table entry, the
\* chosen replacement is applied to every occurrence of the letter
applyLeetSpeak(word, rng, first) ==
    LET f[k \in 0..Len(substitutions)] ==
            IF k = 0 THEN toLowerCase(word)
            ELSE LET entry == substitutions[k]
                     replacement ==
                        entry.replacements[
                            FloorRandom(rng, first + k - 1, Len(entry.replacements)) + 1]
                 IN  replaceAll(f[k - 1], entry.letter, replacement)
    IN  f[Len(substitutions)]

\* the eleven pattern functions of generatePatternBasedPasswords
\* (lines 1133-1154), applied to one base word; first is the position of
\* the random stream at which applyLeetSpeak starts reading
patternsOf(base, rng, first, year) ==
    << base \o "2025" \o "!" \o padEnd("", 16 - Len(base) - 5, "0"),
       base \o "123456" \o "@" \o padEnd("", 16 - Len(base) - 7, "x"),
       base \o "Pass" \o "2025" \o "!" \o padEnd("", 16 - Len(base) - 9, "1"),
       substr(base \o base, 0, 12) \o "2025",
       base \o substr(base \o "123", 0, 16 - Len(base)),
       applyLeetSpeak(base, rng, first) \o "123456",
       toUpperCase(base) \o toLowerCase(base),
       base \o substr("qwerty123456", 0, 16 - Len(base)),
       base \o substr("asdfgh123456", 0, 16 - Len(base)),
       base \o ToString(year) \o "HOME",
       base \o "Family" \o "2025" \o "!" >>

\* generatePatternBasedPasswords keeping the strings of every length
generatePatternBasedPasswordsUnfiltered(ssid, networkInfo, rng, first, year) ==
    LET baseWords == << IF ssid # "" THEN ssid ELSE "WiFi",
                        "Home", "Secure", "Network", "Router" >>
        kept(k) == SelectSeq(
                      patternsOf(baseWords[k], rng,
                                 first + Len(substitutions) * (k - 1), year),
                      LAMBDA generated : TRUE)
        f[k \in 0..Len(baseWords)] ==
            IF k = 0 THEN << >> ELSE f[k - 1] \o kept(k)
    IN  uniq(f[Len(baseWords)])

\* generatePatternBasedPasswords (lines 1129-1172); the k-th base word's
\* applyLeetSpeak call reads the random stream from first + 8 * (k - 1)
generatePatternBasedPasswords(ssid, networkInfo, rng, first, year) ==
    LET baseWords == << IF ssid # "" THEN ssid ELSE "WiFi",
                        "Home", "Secure", "Network", "Router" >>
        kept(k) == SelectSeq(
                      patternsOf(baseWords[k], rng,
                                 first + Len(substitutions) * (k - 1), year),
                      LAMBDA generated : Len(generated) <= 16)
        f[k \in 0..Len(baseWords)] ==
            IF k = 0 THEN << >> ELSE f[k - 1] \o kept(k)
    IN  uniq(f[Len(baseWords)])

\* the number of Math.random() calls of generatePatternBasedPasswords
patternDraws == 5 * Len(substitutions)

\* capitalizeFirst (lines 1245-1247)
capitalizeFirst(str) == toUpperCase(charAt(str, 0)) \o slice(str, 1)

\* generateHybridPasswords (lines 1197-1237)
generateHybridPasswords(ssid, networkInfo, routerInfo) ==
    LET base == IF ssid # "" THEN ssid ELSE "Network"
        paddingWords == << "Secure", "Safe", "Home", "WiFi", "Access" >>
        padded ==
            concatMap(paddingWords, LAMBDA padding :
                LET combined == base \o padding
                    remaining == 16 - Len(combined)
                IN  IF Len(combined) < 16
                    THEN << combined \o substr(repeat("2025", CeilDiv(remaining, 4)), 0, remaining),
                            combined \o substr(repeat("123!", CeilDiv(remaining, 4)), 0, remaining),
                            combined \o substr(repeat("abcd", CeilDiv(remaining, 4)), 0, remaining) >>
                    ELSE << >>)
        vendorBased ==
            IF hasVendor(routerInfo)
            THEN LET vendor == routerInfo.vendor
                 IN  << substr(vendor \o "HomeNetwork25", 0, 16),
                        substr(vendor \o "Office2025!!", 0, 16),
                        substr(base \o vendor \o "2025", 0, 16) >>
            ELSE << >>
        keyboardPatterns == << "qwertyuiopasdfgh", "asdfghjklzxcvbnm", "1234567890qwerty" >>
        keyboard ==
            concatMap(keyboardPatterns, LAMBDA pattern :
                << pattern, toUpperCase(pattern), capitalizeFirst(pattern) >>)
        phrases == << "ilovemyfamily16", "securenetwork25", "homeinternetok", "familywifipass" >>
    IN  uniq(padded \o vendorBased \o keyboard \o phrases)

----------------------------------------------------------------------------
\* what the two generators that read no random value return for every SSID
\* and router of the model, computed once
wordCombinationsOf ==
    [s \in SSIDs, r \in Routers |-> generateWordCombinations(s, r)]

hybridPasswordsOf ==
    [s \in SSIDs, r \in Routers |->
        generateHybridPasswords(s, [encryption |-> "WPA2"], r)]

----------------------------------------------------------------------------
(* Generation-attack simulator *)

\* analyzePasswordPatterns (lines 1256-1266)
analyzePasswordPatterns(ssid, networkInfo) ==
    [ssidBasedVulnerability |-> IF ssid # "" THEN "HIGH" ELSE "LOW",
     commonPatternRisk      |-> "MEDIUM",
     dictionaryWordRisk     |-> "HIGH",
     keyboardPatternRisk    |-> "MEDIUM",
     datePatternRisk        |-> "HIGH",
     lengthAdequacy         |-> "DEPENDS_ON_COMPLEXITY",
     overallPatternWeakness |-> "MODERATE_TO_HIGH"]

\* one entry of results.generationStrategies
strategy(name, passwords, successRate) ==
    [name        |-> name,
     count       |-> Len(passwords),
     examples    |-> sliceFirst(passwords, 5),
     successRate |-> successRate]

\* the smallest successRate of the strategies in place of the largest
minSuccessRate(strategies) ==
    CHOOSE r \in {strategies[i].successRate : i \in 1..Len(strategies)} :
        \A i \in 1..Len(strategies) : strategies[i].successRate >= r

\* Math.max(...results.generationStrategies.map(s => s.successRate))
maxSuccessRate(strategies) ==
    CHOOSE r \in {strategies[i].successRate : i \in 1..Len(strategies)} :
        \A i \in 1..Len(strategies) : strategies[i].successRate <= r

\* simulateIntelligentPasswordGeneration (lines 962-1068)
simulateIntelligentPasswordGeneration(ssid, networkInfo, routerInfo, rng, first, year) ==
    LET wordCombinations == wordCombinationsOf[ssid, routerInfo]
        patternPasswords == generatePatternBasedPasswords(ssid, networkInfo, rng, first, year)
        hybridPasswords  == hybridPasswordsOf[ssid, routerInfo]
        generationStrategies ==
            << strategy("Word Combinations", wordCombinations, 15),
               strategy("Pattern-Based", patternPasswords, 25),
               strategy("Hybrid Generation", hybridPasswords, 35) >>
        generatedPasswords ==
            generationStrategies[1].count + generationStrategies[2].count
                + generationStrategies[3].count
        estimatedSuccessRate == maxSuccessRate(generationStrategies)
        c0 == first + patternDraws
        l  == toLowerCase(ssid)
        ssidBasedCracks ==
            << l \o "2025", l \o "home", l \o "wifi123", "secure" \o l, l \o "@home" >>
        ssidCracks ==
            IF ssid # ""
            THEN [index \in 1..2 |->
                    [password  |-> ssidBasedCracks[index],
                     category  |-> "Generated Pattern",
                     method    |-> "SSID + Common Pattern",
                     crackedIn |-> FloorRandom(rng, c0 + 2 * (index - 1), 300) + 60,
                     attempts  |-> FloorRandom(rng, c0 + 2 * (index - 1) + 1, 10000) + 1000,
                     reason    |-> "Predictable pattern based on network name"]]
            ELSE << >>
        c1 == c0 + 2 * Len(ssidCracks)
        v  == toLowerCase(routerInfo.vendor)
        vendorCracks == << v \o "home25", v \o "2025!", "secure" \o v >>
        vendorCrack ==
            IF hasVendor(routerInfo)
            THEN << [password  |-> vendorCracks[1],
                     category  |-> "Generated Pattern",
                     method    |-> "Vendor + Pattern",
                     crackedIn |-> FloorRandom(rng, c1, 600) + 120,
                     attempts  |-> FloorRandom(rng, c1 + 1, 50000) + 5000,
                     reason    |-> "Pattern based on router vendor"] >>
            ELSE << >>
        c2 == c1 + 2 * Len(vendorCrack)
        cracking == estimatedSuccessRate > 25
    IN  [status                    |-> "ok",
         generatedPasswords        |-> generatedPasswords,
         generationStrategies      |-> generationStrategies,
         estimatedSuccessRate      |-> estimatedSuccessRate,
         timeToGenerate            |-> CeilDiv(generatedPasswords, 100000),
         patternAnalysis           |-> analyzePasswordPatterns(ssid, networkInfo),
         potentialWeaknesses       |-> << >>,
         successfulGeneratedCracks |-> IF cracking THEN ssidCracks \o vendorCrack ELSE << >>,
         draws                     |-> IF cracking THEN c2 - first ELSE c0 - first]

----------------------------------------------------------------------------
(* Combiner and risk classifier *)

\* combineAttackResults where one potential match is not enough for HIGH
combineAttackResultsTwoMatches(dictionaryResults, generationResults) ==
    [totalPasswordsTested |->
        dictionaryResults.testedPasswords + generationResults.generatedPasswords,
     combinedSuccessRate |->
        Max(IF dictionaryResults.attackSuccess THEN 90 ELSE 20,
            generationResults.estimatedSuccessRate),
     fastestAttackVector |->
        IF dictionaryResults.timeToBreak < generationResults.timeToGenerate
        THEN "Dictionary Attack" ELSE "Intelligent Generation",
     vulnerabilityLevel |->
        IF Len(dictionaryResults.potentialMatches) > 1 THEN "HIGH"
        ELSE IF generationResults.estimatedSuccessRate > 30 THEN "MEDIUM"
        ELSE "LOW",
     recommendedDefenses |-> << >>]

\* combineAttackResults (lines 1275-1288)
combineAttackResults(dictionaryResults, generationResults) ==
    [totalPasswordsTested |->
        dictionaryResults.testedPasswords + generationResults.generatedPasswords,
     combinedSuccessRate |->
        Max(IF dictionaryResults.attackSuccess THEN 90 ELSE 20,
            generationResults.estimatedSuccessRate),
     fastestAttackVector |->
        IF dictionaryResults.timeToBreak < generationResults.timeToGenerate
        THEN "Dictionary Attack" ELSE "Intelligent Generation",
     vulnerabilityLevel |->
        IF Len(dictionaryResults.potentialMatches) > 0 THEN "HIGH"
        ELSE IF generationResults.estimatedSuccessRate > 30 THEN "MEDIUM"
        ELSE "LOW",
     recommendedDefenses |-> << >>]

\* calculateOverallRiskLevel without its WEP row
calculateOverallRiskLevelWithoutWep(overallAssessment, networkInfo) ==
    IF networkInfo.encryption = "OPEN" THEN "CRITICAL"
    ELSE IF overallAssessment.vulnerabilityLevel = "HIGH" THEN "HIGH"
    ELSE IF networkInfo.encryption = "WPA" THEN "HIGH"
    ELSE IF overallAssessment.vulnerabilityLevel = "MEDIUM" THEN "MEDIUM"
    ELSE IF networkInfo.encryption = "WPA2" THEN "MEDIUM"
    ELSE "LOW"

\* calculateOverallRiskLevel with the WPA row below the MEDIUM row
calculateOverallRiskLevelMediumFirst(overallAssessment, networkInfo) ==
    IF networkInfo.encryption = "OPEN" THEN "CRITICAL"
    ELSE IF networkInfo.encryption = "WEP" THEN "CRITICAL"
    ELSE IF overallAssessment.vulnerabilityLevel = "HIGH" THEN "HIGH"
    ELSE IF overallAssessment.vulnerabilityLevel = "MEDIUM" THEN "MEDIUM"
    ELSE IF networkInfo.encryption = "WPA" THEN "HIGH"
    ELSE IF networkInfo.encryption = "WPA2" THEN "MEDIUM"
    ELSE "LOW"

\* calculateOverallRiskLevel (lines 1297-1305)
calculateOverallRiskLevel(overallAssessment, networkInfo) ==
    IF networkInfo.encryption = "OPEN" THEN "CRITICAL"
    ELSE IF networkInfo.encryption = "WEP" THEN "CRITICAL"
    ELSE IF overallAssessment.vulnerabilityLevel = "HIGH" THEN "HIGH"
    ELSE IF networkInfo.encryption = "WPA" THEN "HIGH"
    ELSE IF overallAssessment.vulnerabilityLevel = "MEDIUM" THEN "MEDIUM"
    ELSE IF networkInfo.encryption = "WPA2" THEN "MEDIUM"
    ELSE "LOW"

\* the general items with the first one pushed a second time
generalRecommendationsRepeated ==
    << "Use WPA3 encryption if available",
       "Enable MAC address filtering for additional security",
       "Regularly update router firmware",
       "Use a unique password not used elsewhere",
       "Consider a password manager for complex passwords",
       "Use WPA3 encryption if available" >>

\* the five general items of generateSecurityRecommendations (lines
\* 1331-1335); the strings are the source's without their leading emoji
generalRecommendations ==
    << "Use WPA3 encryption if available",
       "Enable MAC address filtering for additional security",
       "Regularly update router firmware",
       "Use a unique password not used elsewhere",
       "Consider a password manager for complex passwords" >>

\* generateSecurityRecommendations (lines 1314-1342)
generateSecurityRecommendations(overallAssessment, networkInfo) ==
    (IF networkInfo.encryption = "OPEN"
        THEN << "CRITICAL: Enable WPA3 or WPA2 encryption immediately" >> ELSE << >>)
    \o (IF networkInfo.encryption = "WEP"
        THEN << "CRITICAL: Upgrade from WEP to WPA3 encryption" >> ELSE << >>)
    \o (IF overallAssessment.vulnerabilityLevel = "HIGH"
        THEN << "Use a 16+ character password with mixed case, numbers, and symbols",
                "Avoid passwords based on network name (SSID)",
                "Avoid common dictionary words and predictable patterns" >>
        ELSE << >>)
    \o generalRecommendations
    \o (IF overallAssessment.combinedSuccessRate > 50
        THEN << "Consider changing password immediately - high crack probability" >>
        ELSE << >>)

\* baseTime of calculateRealisticCrackTime (lines 1352-1358)
baseTime ==
    ("OPEN" :> "Instant (no password)")
    @@ ("WEP" :> "1-10 minutes (regardless of password)")
    @@ ("WPA" :> "1 hour - 1 week (depending on password)")
    @@ ("WPA2" :> "1 day - 100 years (depending on password)")
    @@ ("WPA3" :> "10 years - never (with strong password)")

\* calculateRealisticCrackTime where the encryption's own estimate is kept
\* when the table has one
calculateRealisticCrackTimeTableFirst(overallAssessment, networkInfo) ==
    IF networkInfo.encryption \in DOMAIN baseTime
    THEN baseTime[networkInfo.encryption]
    ELSE IF overallAssessment.vulnerabilityLevel = "HIGH"
    THEN "Minutes to hours (weak password detected)"
    ELSE IF overallAssessment.vulnerabilityLevel = "MEDIUM"
    THEN "Hours to days (moderate password strength)"
    ELSE "Unknown"

\* calculateRealisticCrackTime (lines 1351-1369)
calculateRealisticCrackTime(overallAssessment, networkInfo) ==
    LET estimate == IF networkInfo.encryption \in DOMAIN baseTime
                    THEN baseTime[networkInfo.encryption] ELSE "Unknown"
    IN  IF overallAssessment.vulnerabilityLevel = "HIGH"
        THEN "Minutes to hours (weak password detected)"
        ELSE IF overallAssessment.vulnerabilityLevel = "MEDIUM"
        THEN "Hours to days (moderate password strength)"
        ELSE estimate

\* steps 3 and 4 of enhancedPasswordStrengthAssessment (lines 803-810)
assessmentOf(dictionaryResults, generatedPasswordResults, overallAssessment, networkInfo) ==
    [status                   |-> "ok",
     dictionaryResults        |-> dictionaryResults,
     generatedPasswordResults |-> generatedPasswordResults,
     overallAssessment        |-> overallAssessment,
     riskLevel          |-> calculateOverallRiskLevel(overallAssessment, networkInfo),
     recommendations    |-> generateSecurityRecommendations(overallAssessment, networkInfo),
     estimatedCrackTime |-> calculateRealisticCrackTime(overallAssessment, networkInfo)]

\* steps 2 to 4 (lines 800-810), given what step 1 returned; the generation
\* simulator reads the random stream where the dictionary simulator stopped
assessmentAfter(dictionaryResults, generatedPasswordResults, networkInfo) ==
    assessmentOf(dictionaryResults, generatedPasswordResults,
                 combineAttackResults(dictionaryResults, generatedPasswordResults),
                 networkInfo)

assessmentFrom(dictionaryResults, ssid, networkInfo, routerInfo, rng, year) ==
    IF dictionaryResults.status # "ok"
    THEN dictionaryResults
    ELSE assessmentAfter(
            dictionaryResults,
            simulateIntelligentPasswordGeneration(
                ssid, networkInfo, routerInfo, rng, dictionaryResults.draws, year),
            networkInfo)

\* enhancedPasswordStrengthAssessment (lines 784-811); an error raised by
\* simulateDictionaryAttack propagates to the caller
enhancedPasswordStrengthAssessment(ssid, networkInfo, routerInfo, rng, year) ==
    assessmentFrom(simulateDictionaryAttack(ssid, networkInfo, routerInfo, rng, 0),
                   ssid, networkInfo, routerInfo, rng, year)

---------------------------------------------------------------------------------------------------------------------------------------------------
(* Exact arithmetic for the legacy simulator *)

\* A natural number of any size is the sequence of its base-1000 digits,
\* least significant first, without leading zeros (zero is << >>).  The
\* code computes in IEEE doubles; the model computes the exact values.

\* the digits, from position i on, of carry * 1000^(i-1) plus the sum of
\* the raw[j] * 1000^(j-1) for j >= i, the raw[j] being naturals
RECURSIVE BigCarry(_, _, _)
BigCarry(raw, i, carry) ==
    IF i > Len(raw)
    THEN IF carry = 0 THEN << >>
         ELSE << carry % 1000 >> \o BigCarry(raw, i, carry \div 1000)
    ELSE << (raw[i] + carry) % 1000 >> \o BigCarry(raw, i + 1, (raw[i] + carry) \div 1000)

BigStrip(digits) ==
    LET n == Len(digits)
        top == IF \E i \in 1..n : digits[i] # 0
               THEN CHOOSE i \in 1..n :
                        digits[i] # 0 /\ \A j \in (i + 1)..n : digits[j] = 0
               ELSE 0
    IN  SubSeq(digits, 1, top)

BigNormalize(raw) == BigStrip(BigCarry(raw, 1, 0))

\* a natural below 2^31
BigOf(n) == BigNormalize(<< n >>)

BigMul(a, b) ==
    IF a = << >> \/ b = << >> THEN << >>
    ELSE LET term(k, i) == IF k - i + 1 \in 1..Len(b) THEN a[i] * b[k - i + 1] ELSE 0
             column(k) ==
                LET s[i \in 0..Len(a)] == IF i = 0 THEN 0 ELSE s[i - 1] + term(k, i)
                IN  s[Len(a)]
         IN  BigNormalize([k \in 1..(Len(a) + Len(b) - 1) |-> column(k)])

BigSquare(a) == BigMul(a, a)

\* a * m for a natural m below 2^21
BigScale(a, m) == BigNormalize([i \in 1..Len(a) |-> a[i] * m])

BigLess(a, b) ==
    IF Len(a) # Len(b) THEN Len(a) < Len(b)
    ELSE \E i \in 1..Len(a) :
            a[i] < b[i] /\ \A j \in (i + 1)..Len(a) : a[j] = b[j]

\* base^exponent for naturals
RECURSIVE BigPow(_, _)
BigPow(base, exponent) ==
    IF exponent = 0 THEN BigOf(1)
    ELSE IF exponent % 2 = 0 THEN BigSquare(BigPow(base, exponent \div 2))
    ELSE BigScale(BigPow(base, exponent - 1), base)

----------------------------------------------------------------------------
(* Legacy closed-form simulator *)

\* A number given as passwordLength is a whole number of halves: twice is
\* two times the number (16 stands for 8, 5 for 2.5, -2 for -1).
Halves(twice) == [twice |-> twice]

\* an option of the options object: the key is absent, or given with a value
AbsentNumber == [given |-> FALSE, value |-> 0]
GivenNumber(v) == [given |-> TRUE, value |-> v]
AbsentLength == [given |-> FALSE, value |-> Halves(0)]
GivenLength(twice) == [given |-> TRUE, value |-> Halves(twice)]

\* passwordComplexity: the key is absent, given as undefined, or a string
AbsentComplexity == [given |-> FALSE, defined |-> FALSE, value |-> ""]
UndefinedComplexity == [given |-> TRUE, defined |-> FALSE, value |-> ""]
GivenComplexity(s) == [given |-> TRUE, defined |-> TRUE, value |-> s]

\* calculateAttemptsPerSecond with a thousand times the WEP rate
calculateAttemptsPerSecondFastWep(encryption) ==
    IF encryption = "WPA3" THEN 100
    ELSE IF encryption = "WPA2" THEN 20000
    ELSE IF encryption = "WPA" THEN 50000
    ELSE IF encryption = "WEP" THEN 1000000000
    ELSE 10000

\* calculateAttemptsPerSecond (lines 558-573)
calculateAttemptsPerSecond(encryption) ==
    IF encryption = "WPA3" THEN 100
    ELSE IF encryption = "WPA2" THEN 20000
    ELSE IF encryption = "WPA" THEN 50000
    ELSE IF encryption = "WEP" THEN 1000000
    ELSE 10000

\* getCharsetSize comparing the tier as it is written
getCharsetSizeCaseSensitive(complexity) ==
    IF complexity = "high" THEN 95
    ELSE IF complexity = "medium" THEN 62
    ELSE IF complexity = "low" THEN 36
    ELSE 26

\* getCharsetSize (lines 578-589), for a string
getCharsetSize(complexity) ==
    LET tier == toLowerCase(complexity)
    IN  IF tier = "high" THEN 95
        ELSE IF tier = "medium" THEN 62
        ELSE IF tier = "low" THEN 36
        ELSE 26

\* config of simulateBruteForceAttack (lines 514-520): the defaults, then
\* ...options, which puts every key the options carry over its default
configOf(encryption, options) ==
    LET defaults ==
            [passwordLength |->
                IF options.passwordLength.given /\ options.passwordLength.value.twice # 0
                THEN options.passwordLength.value ELSE Halves(2 * 8),
             passwordComplexity |->
                IF options.passwordComplexity.given /\ options.passwordComplexity.defined
                        /\ options.passwordComplexity.value # ""
                THEN [defined |-> TRUE, value |-> options.passwordComplexity.value]
                ELSE [defined |-> TRUE, value |-> "medium"],
             attemptsPerSecond |->
                IF options.attemptsPerSecond.given /\ options.attemptsPerSecond.value # 0
                THEN options.attemptsPerSecond.value
                ELSE calculateAttemptsPerSecond(encryption),
             timeLimit |->
                IF options.timeLimit.given /\ options.timeLimit.value # 0
                THEN options.timeLimit.value ELSE 3600]
    IN  [passwordLength |->
            IF options.passwordLength.given
            THEN options.passwordLength.value ELSE defaults.passwordLength,
         passwordComplexity |->
            IF options.passwordComplexity.given
            THEN [defined |-> options.passwordComplexity.defined,
                  value   |-> options.passwordComplexity.value]
            ELSE defaults.passwordComplexity,
         attemptsPerSecond |->
            IF options.attemptsPerSecond.given
            THEN options.attemptsPerSecond.value ELSE defaults.attemptsPerSecond,
         timeLimit |->
            IF options.timeLimit.given
            THEN options.timeLimit.value ELSE defaults.timeLimit]

\* charsetSize * passwordLength in place of the power
powerAsProduct(charsetSize, passwordLength) ==
    [inverted |-> passwordLength.twice < 0,
     square   |-> BigSquare(BigOf(charsetSize *
                        ((IF passwordLength.twice < 0
                          THEN -passwordLength.twice ELSE passwordLength.twice)
                            \div 2)))]

\* Math.pow(charsetSize, passwordLength), exactly: the value is
\* sqrt(square) when the exponent is positive or zero and 1 / sqrt(square)
\* when it is negative, where square = charsetSize^|2 * passwordLength|
power(charsetSize, passwordLength) ==
    [inverted |-> passwordLength.twice < 0,
     square   |-> BigPow(charsetSize,
                         IF passwordLength.twice < 0
                         THEN -passwordLength.twice ELSE passwordLength.twice)]

\* (seconds * attemptsPerSecond)^2
squaredAttempts(seconds, attemptsPerSecond) ==
    BigSquare(BigMul(BigOf(seconds), BigOf(attemptsPerSecond)))

\* secondsBelow where a password space of 2^64 or more (a square of more
\* than 13 digits) has wrapped around to a small value
secondsBelowWrapping(passwordSpace, attemptsPerSecond, seconds) ==
    \/ passwordSpace.inverted
    \/ Len(passwordSpace.square) > 13
    \/ BigLess(passwordSpace.square, squaredAttempts(seconds, attemptsPerSecond))

\* passwordSpace / attemptsPerSecond < seconds, for attemptsPerSecond > 0
\* and seconds > 0
secondsBelow(passwordSpace, attemptsPerSecond, seconds) ==
    \/ passwordSpace.inverted
    \/ BigLess(passwordSpace.square, squaredAttempts(seconds, attemptsPerSecond))

\* the strings assessAttackFeasibility returns, weakest tier first
feasibilityTiers ==
    << "CRITICAL - Password can be broken in less than an hour",
       "HIGH RISK - Password can be broken in less than a day",
       "RISKY - Password can be broken in less than a week",
       "MODERATE - Password would take up to a month to break",
       "LOW RISK - Password would take months to break",
       "STRONG - Password would take years to break",
       "VERY STRONG - Password would take decades to break" >>

\* the position of a tier in that order
tierRank(tier) == CHOOSE i \in 1..Len(feasibilityTiers) : feasibilityTiers[i] = tier

\* assessAttackFeasibility with every test written as <=
assessAttackFeasibilityInclusive(passwordSpace, attemptsPerSecond) ==
    IF secondsBelow(passwordSpace, attemptsPerSecond, 3600 + 1)
    THEN "CRITICAL - Password can be broken in less than an hour"
    ELSE IF secondsBelow(passwordSpace, attemptsPerSecond, 86400 + 1)
    THEN "HIGH RISK - Password can be broken in less than a day"
    ELSE IF secondsBelow(passwordSpace, attemptsPerSecond, 604800 + 1)
    THEN "RISKY - Password can be broken in less than a week"
    ELSE IF secondsBelow(passwordSpace, attemptsPerSecond, 2592000 + 1)
    THEN "MODERATE - Password would take up to a month to break"
    ELSE IF secondsBelow(passwordSpace, attemptsPerSecond, 31536000 + 1)
    THEN "LOW RISK - Password would take months to break"
    ELSE IF secondsBelow(passwordSpace, attemptsPerSecond, 315360000 + 1)
    THEN "STRONG - Password would take years to break"
    ELSE "VERY STRONG - Password would take decades to break"

\* assessAttackFeasibility (lines 594-610) of passwordSpace / attemptsPerSecond
assessAttackFeasibility(passwordSpace, attemptsPerSecond) ==
    IF secondsBelow(passwordSpace, attemptsPerSecond, 3600)
    THEN "CRITICAL - Password can be broken in less than an hour"
    ELSE IF secondsBelow(passwordSpace, attemptsPerSecond, 86400)
    THEN "HIGH RISK - Password can be broken in less than a day"
    ELSE IF secondsBelow(passwordSpace, attemptsPerSecond, 604800)
    THEN "RISKY - Password can be broken in less than a week"
    ELSE IF secondsBelow(passwordSpace, attemptsPerSecond, 2592000)
    THEN "MODERATE - Password would take up to a month to break"
    ELSE IF secondsBelow(passwordSpace, attemptsPerSecond, 31536000)
    THEN "LOW RISK - Password would take months to break"
    ELSE IF secondsBelow(passwordSpace, attemptsPerSecond, 315360000)
    THEN "STRONG - Password would take years to break"
    ELSE "VERY STRONG - Password would take decades to break"

\* formatTimeEstimate counting in minutes up to two hours
formatTimeEstimateLongMinutes(passwordSpace, attemptsPerSecond) ==
    IF secondsBelow(passwordSpace, attemptsPerSecond, 60) THEN "seconds"
    ELSE IF secondsBelow(passwordSpace, attemptsPerSecond, 7200) THEN "minutes"
    ELSE IF secondsBelow(passwordSpace, attemptsPerSecond, 86400) THEN "hours"
    ELSE IF secondsBelow(passwordSpace, attemptsPerSecond, 604800) THEN "days"
    ELSE IF secondsBelow(passwordSpace, attemptsPerSecond, 2592000) THEN "weeks"
    ELSE IF secondsBelow(passwordSpace, attemptsPerSecond, 31536000) THEN "months"
    ELSE IF secondsBelow(passwordSpace, attemptsPerSecond, 315360000) THEN "years"
    ELSE "decades"

\* the unit formatTimeEstimate (lines 615-633) picks
formatTimeEstimate(passwordSpace, attemptsPerSecond) ==
    IF secondsBelow(passwordSpace, attemptsPerSecond, 60) THEN "seconds"
    ELSE IF secondsBelow(passwordSpace, attemptsPerSecond, 3600) THEN "minutes"
    ELSE IF secondsBelow(passwordSpace, attemptsPerSecond, 86400) THEN "hours"
    ELSE IF secondsBelow(passwordSpace, attemptsPerSecond, 604800) THEN "days"
    ELSE IF secondsBelow(passwordSpace, attemptsPerSecond, 2592000) THEN "weeks"
    ELSE IF secondsBelow(passwordSpace, attemptsPerSecond, 31536000) THEN "months"
    ELSE IF secondsBelow(passwordSpace, attemptsPerSecond, 315360000) THEN "years"
    ELSE "decades"

\* secondsNeeded when it is a whole number n of seconds: n / 1
wholeSeconds(n) == [inverted |-> FALSE, square |-> BigSquare(BigOf(n))]

\* k * (passwordSpace / attemptsPerSecond) <= n * elapsed, that is
\* elapsed / totalSeconds * n >= k, for naturals k, n and elapsed
progressAtLeast(passwordSpace, attemptsPerSecond, elapsed, n, k) ==
    IF passwordSpace.inverted
    THEN ~BigLess(BigMul(squaredAttempts(n * elapsed, attemptsPerSecond),
                         passwordSpace.square),
                  BigOf(k * k))
    ELSE ~BigLess(squaredAttempts(n * elapsed, attemptsPerSecond),
                  BigScale(passwordSpace.square, k * k))

\* generateProgressVisualization (lines 638-660): exceeds100 tells whether
\* progressPercentage, which is returned uncapped, is above 100; the bar is
\* the visualization without its percentage label.  totalSeconds is
\* positive, so a negative time limit makes the percentage negative and
\* filledBars, its floor, at most -1: '#'.repeat(filledBars) then raises a
\* RangeError (line 654).
generateProgressVisualization(passwordSpace, attemptsPerSecond, timeLimit) ==
    LET effectiveTimeLimit == Min(timeLimit, 3600)
        barLength == 30
        filledBars ==
            CHOOSE k \in 0..barLength :
                /\ progressAtLeast(passwordSpace, attemptsPerSecond,
                                   effectiveTimeLimit, barLength, k)
                /\ \/ k = barLength
                   \/ ~progressAtLeast(passwordSpace, attemptsPerSecond,
                                       effectiveTimeLimit, barLength, k + 1)
        emptyBars == barLength - filledBars
    IN  IF effectiveTimeLimit < 0
        THEN [raises |-> TRUE, exceeds100 |-> FALSE, visualization |-> ""]
        ELSE [raises |-> FALSE,
              exceeds100 |-> effectiveTimeLimit > 0
                                /\ secondsBelow(passwordSpace, attemptsPerSecond,
                                                effectiveTimeLimit),
              visualization |->
                "[" \o repeat("#", filledBars) \o repeat("-", emptyBars) \o "]"]

\* the body of simulateBruteForceAttack from line 523 on
bruteForceRun(encryption, config) ==
    LET charsetSize == getCharsetSize(config.passwordComplexity.value)
        passwordSpace == power(charsetSize, config.passwordLength)
        progressData == generateProgressVisualization(
                            passwordSpace, config.attemptsPerSecond, config.timeLimit)
    IN  IF progressData.raises THEN RangeError ELSE
        [status     |-> "ok",
         encryption |-> encryption,
         passwordMetrics |->
            [estimatedLength      |-> config.passwordLength,
             estimatedComplexity  |-> config.passwordComplexity.value,
             possibleCombinations |-> passwordSpace,
             charsetSize          |-> charsetSize],
         attackSimulation |->
            [attemptsPerSecond     |-> config.attemptsPerSecond,
             estimatedTimeToBreak  |-> formatTimeEstimate(passwordSpace, config.attemptsPerSecond),
             feasibilityAssessment |-> assessAttackFeasibility(passwordSpace, config.attemptsPerSecond),
             progressAfterOneHour  |-> [exceeds100 |-> progressData.exceeds100],
             progressVisualization |-> progressData.visualization]]

\* simulateBruteForceAttack (lines 510-553): complexity.toLowerCase() in
\* getCharsetSize raises a TypeError when the complexity is undefined
simulateBruteForceAttack(encryption, options) ==
    IF ~configOf(encryption, options).passwordComplexity.defined
    THEN TypeError
    ELSE bruteForceRun(encryption, configOf(encryption, options))

----------------------------------------------------------------------------
(* Legacy protection assessment *)

\* recommendations of checkRateLimiting (lines 96-101)
rateLimitingRecommendations ==
    << "Enable rate limiting on your router if supported",
       "Configure your router to temporarily ban IPs after multiple failed attempts",
       "Implement increasing timeouts between failed authentication attempts",
       "Set up alerts for repeated failed login attempts" >>

\* recommendations of assessPasswordStrength (lines 187-193)
passwordStrengthRecommendations ==
    << "Use WPA3 encryption when possible",
       "Ensure password is at least 12 characters with mixed case, numbers and symbols",
       "Don't use network name, address, or other guessable information in password",
       "Change default passwords immediately after router setup",
       "Use a password manager to generate and store complex WiFi passwords" >>

\* recommendations of checkLockoutProtection (lines 322-328)
lockoutRecommendations ==
    << "Enable temporary lockout after failed attempts in router settings",
       "Configure admin notifications for repeated failed attempts",
       "Set lockout threshold to 5 or fewer attempts",
       "Set lockout duration to at least 15 minutes",
       "Enable progressive lockout (increasing duration with repeated violations)" >>

\* generateRecommendations (lines 491-500)
generateRecommendations(rateLimitingResult, passwordStrengthResult, lockoutProtectionResult) ==
    uniq(rateLimitingResult.recommendations
            \o passwordStrengthResult.recommendations
            \o lockoutProtectionResult.recommendations)

-----
(* The calls the model makes *)

\* the year the process clock shows at start
FirstYear == 2025

\* the values Math.random() takes in the model: the least, the middle and
\* the greatest of [0, 1)
RandomValues == {0, RandDen \div 2, RandDen - 1}

RandomStreams == [1..RandLen -> RandomValues]

VulnerabilityLevels == {"LOW", "MEDIUM", "HIGH"}

NetworkArgs ==
    [for : {"network"}, ssid : SSIDs, networkInfo : [encryption : Encryptions],
     routerInfo : Routers, rng : RandomStreams]

RiskArgs ==
    [for : {"risk"}, overallAssessment : [vulnerabilityLevel : VulnerabilityLevels],
     networkInfo : [encryption : Encryptions]]

PasswordLengths ==
    {AbsentLength, GivenLength(-2), GivenLength(0), GivenLength(2), GivenLength(5),
     GivenLength(8), GivenLength(16), GivenLength(32)}

PasswordComplexities ==
    {AbsentComplexity, UndefinedComplexity, GivenComplexity(""), GivenComplexity("low"),
     GivenComplexity("medium"), GivenComplexity("high"), GivenComplexity("HIGH"),
     GivenComplexity("extreme")}

BruteArgs ==
    [for : {"bruteforce"}, encryption : Encryptions,
     options : [passwordLength    : PasswordLengths,
                passwordComplexity : PasswordComplexities,
                attemptsPerSecond  : {AbsentNumber, GivenNumber(500)},
                timeLimit          : {AbsentNumber, GivenNumber(-60), GivenNumber(0),
                                      GivenNumber(60), GivenNumber(7200)}]]

\* arguments of generateWordCombinations and generateHybridPasswords
GeneratorArgs ==
    [for : {"generator"}, ssid : SSIDs, networkInfo : [encryption : {"WPA2"}],
     routerInfo : Routers]

\* arguments of generatePatternBasedPasswords, and the values Math.random()
\* returns during the call
PatternArgs ==
    [for : {"patterns"}, ssid : SSIDs, networkInfo : [encryption : {"WPA2"}],
     rng : RandomStreams]

\* words with two occurrences of a letter that has two substitutes, with
\* one occurrence, with upper-case letters, and with none to substitute
LeetWords == {"data", "visit", "class", "Home", "WiFi", "bunch"}

LeetArgs == [for : {"leet"}, word : LeetWords, rng : RandomStreams]

SuccessRates == {20, 35, 50, 51, 90}

RecommendationArgs ==
    [for : {"recommendations"},
     overallAssessment : [vulnerabilityLevel : VulnerabilityLevels,
                          combinedSuccessRate : SuccessRates],
     networkInfo : [encryption : Encryptions]]

\* a result object of one of the three legacy checks, as far as
\* generateRecommendations reads it
CheckResults ==
    [recommendations : {<< >>, rateLimitingRecommendations,
                        passwordStrengthRecommendations, lockoutRecommendations}]

LegacyArgs ==
    [for : {"legacy"}, rateLimitingResult : CheckResults,
     passwordStrengthResult : CheckResults, lockoutProtectionResult : CheckResults]

\* the values the tests of assessAttackFeasibility and formatTimeEstimate
\* compare secondsNeeded with
timeThresholds == << 60, 3600, 86400, 604800, 2592000, 31536000, 315360000 >>

\* secondsNeeded at, just below and just above every threshold, and zero
SecondsNeeded ==
    {0} \cup UNION {{timeThresholds[i] - 1, timeThresholds[i], timeThresholds[i] + 1} :
                        i \in 1..Len(timeThresholds)}

\* the argument of assessAttackFeasibility and of formatTimeEstimate
TimeArgs == [for : {"feasibility", "format"}, secondsNeeded : SecondsNeeded]

NoResult == [status |-> "none"]

Init ==
    /\ args \in NetworkArgs \cup RiskArgs \cup BruteArgs \cup GeneratorArgs
                \cup PatternArgs \cup LeetArgs \cup RecommendationArgs \cup LegacyArgs
                \cup TimeArgs
    /\ op = "none"
    /\ now = FirstYear
    /\ result = NoResult
    /\ previous = NoResult
    /\ tables = [COMMON_WIFI_PASSWORDS        |-> COMMON_WIFI_PASSWORDS,
                 PASSWORD_GENERATION_PATTERNS |-> PASSWORD_GENERATION_PATTERNS]

\* a call has returned and the process clock passes into the next year
Tick ==
    /\ op # "none"
    /\ now < FirstYear + MaxYears
    /\ now' = now + 1
    /\ UNCHANGED <<op, args, result, previous, tables>>

\* enhancedPasswordStrengthAssessment(ssid, networkInfo, routerInfo)
Assess ==
    /\ args.for = "network"
    /\ op = "none"
    /\ op' = "enhancedPasswordStrengthAssessment"
    /\ result' = enhancedPasswordStrengthAssessment(
                    args.ssid, args.networkInfo, args.routerInfo, args.rng, now)
    /\ UNCHANGED <<args, now, previous>>
    /\ tables' = tablesAfterDictionaryAttack(tables, args.ssid, args.routerInfo)

\* a second call of the assessment with the same arguments, the random
\* source replaying the same values
AssessAgain ==
    /\ op = "enhancedPasswordStrengthAssessment"
    /\ previous = NoResult
    /\ previous' = result
    /\ result' = enhancedPasswordStrengthAssessment(
                    args.ssid, args.networkInfo, args.routerInfo, args.rng, now)
    /\ UNCHANGED <<op, args, now>>
    /\ tables' = tablesAfterDictionaryAttack(tables, args.ssid, args.routerInfo)

\* simulateDictionaryAttack(ssid, networkInfo, routerInfo)
Dictionary ==
    /\ args.for = "network"
    /\ op = "none"
    /\ op' = "simulateDictionaryAttack"
    /\ result' = simulateDictionaryAttack(
                    args.ssid, args.networkInfo, args.routerInfo, args.rng, 0)
    /\ UNCHANGED <<args, now, previous>>
    /\ tables' = tablesAfterDictionaryAttack(tables, args.ssid, args.routerInfo)

\* simulateIntelligentPasswordGeneration(ssid, networkInfo, routerInfo)
Generation ==
    /\ args.for = "network"
    /\ op = "none"
    /\ op' = "simulateIntelligentPasswordGeneration"
    /\ result' = simulateIntelligentPasswordGeneration(
                    args.ssid, args.networkInfo, args.routerInfo, args.rng, 0, now)
    /\ UNCHANGED <<args, now, previous, tables>>

\* a call of the enhanced engine has returned and the caller makes ready to
\* call again with the same arguments
Return ==
    /\ args.for \in {"network", "generator", "patterns"}
    /\ op # "none"
    /\ previous = NoResult
    /\ op' = "none"
    /\ result' = NoResult
    /\ previous' = [status |-> "returned"]
    /\ UNCHANGED <<args, now, tables>>

\* calculateOverallRiskLevel(overallAssessment, networkInfo)
RiskLevel ==
    /\ args.for = "risk"
    /\ op = "none"
    /\ op' = "calculateOverallRiskLevel"
    /\ result' = [status |-> "ok",
                  value  |-> calculateOverallRiskLevel(args.overallAssessment,
                                                       args.networkInfo)]
    /\ UNCHANGED <<args, now, previous, tables>>

\* simulateBruteForceAttack(encryption, options)
BruteForce ==
    /\ args.for = "bruteforce"
    /\ op = "none"
    /\ op' = "simulateBruteForceAttack"
    /\ result' = simulateBruteForceAttack(args.encryption, args.options)
    /\ UNCHANGED <<args, now, previous, tables>>

\* generateWordCombinations(ssid, routerInfo)
WordCombinations ==
    /\ args.for = "generator"
    /\ op = "none"
    /\ op' = "generateWordCombinations"
    /\ result' = [status |-> "ok",
                  value  |-> wordCombinationsOf[args.ssid, args.routerInfo]]
    /\ UNCHANGED <<args, now, previous, tables>>

\* generateHybridPasswords(ssid, networkInfo, routerInfo)
Hybrid ==
    /\ args.for = "generator"
    /\ op = "none"
    /\ op' = "generateHybridPasswords"
    /\ result' = [status |-> "ok",
                  value  |-> hybridPasswordsOf[args.ssid, args.routerInfo]]
    /\ UNCHANGED <<args, now, previous, tables>>

\* generatePatternBasedPasswords(ssid, networkInfo)
PatternBased ==
    /\ args.for = "patterns"
    /\ op = "none"
    /\ op' = "generatePatternBasedPasswords"
    /\ result' = [status |-> "ok",
                  value  |-> generatePatternBasedPasswords(
                                args.ssid, args.networkInfo, args.rng, 0, now)]
    /\ UNCHANGED <<args, now, previous, tables>>

\* applyLeetSpeak(word)
LeetSpeak ==
    /\ args.for = "leet"
    /\ op = "none"
    /\ op' = "applyLeetSpeak"
    /\ result' = [status |-> "ok", value |-> applyLeetSpeak(args.word, args.rng, 0)]
    /\ UNCHANGED <<args, now, previous, tables>>

\* generateSecurityRecommendations(overallAssessment, networkInfo)
Recommendations ==
    /\ args.for = "recommendations"
    /\ op = "none"
    /\ op' = "generateSecurityRecommendations"
    /\ result' = [status |-> "ok",
                  value  |-> generateSecurityRecommendations(
                                args.overallAssessment, args.networkInfo)]
    /\ UNCHANGED <<args, now, previous, tables>>

\* generateRecommendations(rateLimitingResult, passwordStrengthResult,
\* lockoutProtectionResult)
LegacyRecommendations ==
    /\ args.for = "legacy"
    /\ op = "none"
    /\ op' = "generateRecommendations"
    /\ result' = [status |-> "ok",
                  value  |-> generateRecommendations(
                                args.rateLimitingResult, args.passwordStrengthResult,
                                args.lockoutProtectionResult)]
    /\ UNCHANGED <<args, now, previous, tables>>

\* calculateRealisticCrackTime(overallAssessment, networkInfo)
CrackTime ==
    /\ args.for = "risk"
    /\ op = "none"
    /\ op' = "calculateRealisticCrackTime"
    /\ result' = [status |-> "ok",
                  value  |-> calculateRealisticCrackTime(
                                args.overallAssessment, args.networkInfo)]
    /\ UNCHANGED <<args, now, previous, tables>>

\* assessAttackFeasibility(secondsNeeded)
Feasibility ==
    /\ args.for = "feasibility"
    /\ op = "none"
    /\ op' = "assessAttackFeasibility"
    /\ result' = [status |-> "ok",
                  value  |-> assessAttackFeasibility(wholeSeconds(args.secondsNeeded), 1)]
    /\ UNCHANGED <<args, now, previous, tables>>

\* formatTimeEstimate(seconds)
TimeEstimate ==
    /\ args.for = "format"
    /\ op = "none"
    /\ op' = "formatTimeEstimate"
    /\ result' = [status |-> "ok",
                  value  |-> formatTimeEstimate(wholeSeconds(args.secondsNeeded), 1)]
    /\ UNCHANGED <<args, now, previous, tables>>

Next ==
    \/ Tick
    \/ Assess
    \/ AssessAgain
    \/ Return
    \/ Dictionary
    \/ Generation
    \/ RiskLevel
    \/ BruteForce
    \/ WordCombinations
    \/ Hybrid
    \/ PatternBased
    \/ LeetSpeak
    \/ Recommendations
    \/ LegacyRecommendations
    \/ CrackTime
    \/ Feasibility
    \/ TimeEstimate

Spec == Init /\ [][Next]_vars

----------------------------------------------------------------------------
(* Properties *)

\* the full assessment has returned a result
Assessed == op = "enhancedPasswordStrengthAssessment" /\ result.status = "ok"

\* the dictionary simulator has returned a result
DictionaryDone == op = "simulateDictionaryAttack" /\ result.status = "ok"

\* the legacy simulator has returned a result
BruteForceDone == op = "simulateBruteForceAttack" /\ result.status = "ok"

\* C1: every assessment returned for a network whose encryption is OPEN or
\* WEP has risk level CRITICAL, whatever the SSID, the vendor and the
\* random draws.
C1_OpenOrWepIsCritical ==
    (Assessed /\ args.networkInfo.encryption \in {"OPEN", "WEP"})
        => result.riskLevel = "CRITICAL"

\* a WEP assessment whose combined vulnerability level alone would give
\* MEDIUM
C1_Witness ==
    /\ Assessed
    /\ args.networkInfo.encryption = "WEP"
    /\ result.overallAssessment.vulnerabilityLevel = "MEDIUM"
    /\ result.riskLevel = "CRITICAL"

\* C2: calculateOverallRiskLevel returns the first matching row of the
\* priority table: OPEN gives CRITICAL, WEP gives CRITICAL, vulnerability
\* level HIGH gives HIGH, WPA gives HIGH, vulnerability level MEDIUM gives
\* MEDIUM, WPA2 gives MEDIUM, anything else gives LOW.
C2_PriorityTable ==
    op = "calculateOverallRiskLevel" =>
        LET encryption == args.networkInfo.encryption
            level == args.overallAssessment.vulnerabilityLevel
            rows == << <<encryption = "OPEN", "CRITICAL">>,
                       <<encryption = "WEP", "CRITICAL">>,
                       <<level = "HIGH", "HIGH">>,
                       <<encryption = "WPA", "HIGH">>,
                       <<level = "MEDIUM", "MEDIUM">>,
                       <<encryption = "WPA2", "MEDIUM">>,
                       <<TRUE, "LOW">> >>
            first == CHOOSE i \in 1..Len(rows) :
                        rows[i][1] /\ \A j \in 1..(i - 1) : ~rows[j][1]
        IN  result.value = rows[first][2]

\* WPA with vulnerability level MEDIUM: the WPA row comes first
C2_Witness ==
    /\ op = "calculateOverallRiskLevel"
    /\ args.networkInfo.encryption = "WPA"
    /\ args.overallAssessment.vulnerabilityLevel = "MEDIUM"
    /\ result.value = "HIGH"

\* C3: every assessment returned for a WPA2 network has risk level HIGH
\* when the dictionary simulation recorded at least one potential match
\* and MEDIUM otherwise.
C3_Wpa2HighOrMedium ==
    (Assessed /\ args.networkInfo.encryption = "WPA2") =>
        result.riskLevel =
            IF Len(result.dictionaryResults.potentialMatches) > 0
            THEN "HIGH" ELSE "MEDIUM"

\* a WPA2 assessment with exactly one potential match
C3_Witness ==
    /\ Assessed
    /\ args.networkInfo.encryption = "WPA2"
    /\ Len(result.dictionaryResults.potentialMatches) = 1
    /\ result.riskLevel = "HIGH"

\* C4: testedPasswords of simulateDictionaryAttack is the number of
\* distinct strings in the union of the top-common list, the default list
\* of a vendor that is a key of the table, the SSID templates with the
\* SSID (or "network" for the empty SSID) written in place of {ssid}, and
\* the location, date and brand lists.
C4_TestedIsDistinctUnion ==
    DictionaryDone =>
        LET name == IF args.ssid # "" THEN args.ssid ELSE "network"
            written(p) ==
                LET i == indexOf(p, "{ssid}")
                IN  IF i < 0 THEN p
                    ELSE SubSeq(p, 1, i) \o name \o SubSeq(p, i + 7, Len(p))
            vendorList ==
                IF ~args.routerInfo.isNull
                        /\ args.routerInfo.vendor \in DOMAIN routerDefaults
                THEN routerDefaults[args.routerInfo.vendor] ELSE << >>
            members(list) == {list[i] : i \in 1..Len(list)}
        IN  result.testedPasswords =
                Cardinality(members(top100) \cup members(vendorList)
                            \cup {written(p) : p \in members(ssidPatterns)}
                            \cup members(locationBased) \cup members(datePatterns)
                            \cup members(brandNames))

\* C5 as stated: testedPasswords equals the sum of the counts in
\* passwordCategories.
C5_TestedIsCategorySum ==
    DictionaryDone =>
        LET c == result.passwordCategories
            count(k) == IF k \in DOMAIN c THEN c[k] ELSE 0
        IN  result.testedPasswords =
                count("routerDefaults") + count("ssidBased") + count("locationBased")
                + count("dateBased") + count("brandBased")

\* C5: passwordCategories has no entry for the top-common list and counts
\* each list before de-duplication, so testedPasswords is greater than the
\* sum of the per-category counts, and at most that sum plus the length of
\* the top-common list.
C5_TestedWithinCategoryBounds ==
    DictionaryDone =>
        LET c == result.passwordCategories
            count(k) == IF k \in DOMAIN c THEN c[k] ELSE 0
            sum == count("routerDefaults") + count("ssidBased") + count("locationBased")
                   + count("dateBased") + count("brandBased")
        IN  /\ DOMAIN c \subseteq {"routerDefaults", "ssidBased", "locationBased",
                                   "dateBased", "brandBased"}
            /\ result.testedPasswords > sum
            /\ result.testedPasswords <= sum + Len(top100)

\* a result for a known vendor, whose default list is counted
C5_Witness ==
    /\ DictionaryDone
    /\ "routerDefaults" \in DOMAIN result.passwordCategories
    /\ result.testedPasswords > Len(ssidPatterns) + Len(locationBased)

\* C6: in every result of simulateDictionaryAttack attackSuccess is true
\* exactly when potentialMatches is not empty or the encryption is WEP or
\* OPEN.
C6_AttackSuccess ==
    DictionaryDone =>
        (result.attackSuccess <=>
            (result.potentialMatches # << >>
             \/ args.networkInfo.encryption \in {"WEP", "OPEN"}))

\* an OPEN network without any potential match
C6_Witness ==
    /\ DictionaryDone
    /\ args.networkInfo.encryption = "OPEN"
    /\ result.potentialMatches = << >>
    /\ result.attackSuccess

\* C7: two runs of the full assessment on the same inputs with the same
\* random draws return identical results.
C7_SameResultTwice ==
    (op = "enhancedPasswordStrengthAssessment" /\ previous.status = "ok")
        => result = previous

\* C8: the dictionary simulator, the generation simulator and the full
\* assessment return a populated result, and never raise an error, for
\* every SSID, vendor and encryption string.
C8_NeverRaises ==
    op \in {"simulateDictionaryAttack", "simulateIntelligentPasswordGeneration",
            "enhancedPasswordStrengthAssessment"}
        => result.status = "ok"

\* C9: simulateBruteForceAttack computes possibleCombinations only with a
\* passwordLength that is a positive integer.
C9_LengthIsPositiveInteger ==
    BruteForceDone =>
        /\ result.passwordMetrics.estimatedLength.twice > 0
        /\ result.passwordMetrics.estimatedLength.twice % 2 = 0

\* C10 as stated: the charset size is 36 for "low", 62 for "medium", 95
\* for "high" and 26 for any other tier and for a tier left unspecified.
C10_UnspecifiedIs26 ==
    BruteForceDone =>
        LET complexity == args.options.passwordComplexity
        IN  result.passwordMetrics.charsetSize =
                IF complexity.given /\ complexity.value = "low" THEN 36
                ELSE IF complexity.given /\ complexity.value = "medium" THEN 62
                ELSE IF complexity.given /\ complexity.value = "high" THEN 95
                ELSE 26

\* C10: the tier is compared without regard to case; the charset size is
\* 36 for "low", 62 for "medium", 95 for "high" and 26 for any other
\* string, the empty string included; options without a passwordComplexity
\* key take the default tier "medium" and so give 62.
C10_CharsetTable ==
    BruteForceDone =>
        LET complexity == args.options.passwordComplexity
            tier == IF complexity.given THEN toLowerCase(complexity.value) ELSE "medium"
        IN  result.passwordMetrics.charsetSize =
                IF tier = "low" THEN 36
                ELSE IF tier = "medium" THEN 62
                ELSE IF tier = "high" THEN 95
                ELSE 26

\* options without a passwordComplexity key
C10_Witness ==
    /\ BruteForceDone
    /\ ~args.options.passwordComplexity.given
    /\ result.passwordMetrics.charsetSize = 62

\* one of the three candidate generators has returned its list
GeneratorDone ==
    op \in {"generateWordCombinations", "generatePatternBasedPasswords",
            "generateHybridPasswords"}

\* a recommendation builder has returned its list
RecommendationsDone ==
    op \in {"generateSecurityRecommendations", "generateRecommendations"}

\* the legacy simulator has returned for the given encryption, a
\* passwordLength of length characters and complexity "high", the rate
\* being left to the encryption's table entry
BruteForceHigh(encryption, length) ==
    /\ BruteForceDone
    /\ args.encryption = encryption
    /\ args.options.passwordLength = GivenLength(2 * length)
    /\ args.options.passwordComplexity = GivenComplexity("high")
    /\ ~args.options.attemptsPerSecond.given

\* C11 as stated: WEP with passwordLength 8 and complexity "high" gives a
\* feasibilityAssessment in the CRITICAL tier.
C11_WepHighIsCritical ==
    BruteForceHigh("WEP", 8) =>
        result.attackSimulation.feasibilityAssessment
            = "CRITICAL - Password can be broken in less than an hour"

\* C11: WEP with passwordLength 8 and complexity "high" is 95^8
\* combinations at 1,000,000 attempts per second, more than ten years of
\* guessing, and gives a feasibilityAssessment in the VERY STRONG tier.
C11_WepHighIsVeryStrong ==
    BruteForceHigh("WEP", 8) =>
        /\ result.passwordMetrics.possibleCombinations.square = BigPow(95, 16)
        /\ result.attackSimulation.attemptsPerSecond = 1000000
        /\ result.attackSimulation.feasibilityAssessment
            = "VERY STRONG - Password would take decades to break"

C11_Witness ==
    /\ BruteForceHigh("WEP", 8)
    /\ result.attackSimulation.estimatedTimeToBreak = "decades"

\* C12: WPA3 with passwordLength 16 and complexity "high" (95^16
\* combinations at 100 attempts per second) gives a feasibilityAssessment
\* in the STRONG or the VERY STRONG tier.
C12_Wpa3HighIsStrong ==
    BruteForceHigh("WPA3", 16) =>
        result.attackSimulation.feasibilityAssessment
            \in {"STRONG - Password would take years to break",
                 "VERY STRONG - Password would take decades to break"}

C12_Witness ==
    /\ BruteForceHigh("WPA3", 16)
    /\ result.attackSimulation.attemptsPerSecond = 100
    /\ result.passwordMetrics.charsetSize = 95

\* C13: every string generateHybridPasswords returns is exactly 16
\* characters long.
C13_HybridAre16Long ==
    op = "generateHybridPasswords" =>
        \A i \in 1..Len(result.value) : Len(result.value[i]) = 16

\* C14: no string generatePatternBasedPasswords returns is longer than 16
\* characters, whatever the SSID.
C14_PatternsAtMost16 ==
    op = "generatePatternBasedPasswords" =>
        \A i \in 1..Len(result.value) : Len(result.value[i]) <= 16

\* an SSID longer than 16 characters, of which one pattern survives
C14_Witness ==
    /\ op = "generatePatternBasedPasswords"
    /\ Len(args.ssid) > 16
    /\ \E i \in 1..Len(result.value) :
            SubSeq(result.value[i], 1, 12) = SubSeq(args.ssid, 1, 12)

\* C15: in the sequence each of the three generators returns no string
\* occurs twice.
C15_GeneratorsHaveNoDuplicates ==
    GeneratorDone =>
        Cardinality({result.value[i] : i \in 1..Len(result.value)}) = Len(result.value)

\* an SSID whose lower-case form is a built-in base word
C15_Witness ==
    /\ op = "generateWordCombinations"
    /\ toLowerCase(args.ssid) = "home"
    /\ Len(result.value) > 0

\* C16: the list generateSecurityRecommendations returns, and the list the
\* legacy generateRecommendations returns, contain no string twice.
C16_RecommendationsHaveNoDuplicates ==
    RecommendationsDone =>
        Cardinality({result.value[i] : i \in 1..Len(result.value)}) = Len(result.value)

\* every rule of generateSecurityRecommendations has fired
C16_Witness ==
    /\ op = "generateSecurityRecommendations"
    /\ args.networkInfo.encryption = "WEP"
    /\ args.overallAssessment.vulnerabilityLevel = "HIGH"
    /\ args.overallAssessment.combinedSuccessRate > 50
    /\ Len(result.value) = 10

\* C17: in every list generateSecurityRecommendations returns the five
\* general items are the tail of the list, after every item added because
\* of the encryption, the vulnerability level or the success rate.
C17_GeneralItemsAreTail ==
    op = "generateSecurityRecommendations" =>
        /\ Len(result.value) >= Len(generalRecommendations)
        /\ SubSeq(result.value,
                  Len(result.value) - Len(generalRecommendations) + 1,
                  Len(result.value)) = generalRecommendations

\* C18: every fabricated crack record has crackedIn and attempts within
\* the range of its category.
C18_CrackRecordsInRange ==
    LET within(record, lowSeconds, highSeconds, lowAttempts, highAttempts) ==
            /\ record.crackedIn >= 0
            /\ record.attempts >= 1
            /\ record.crackedIn \in lowSeconds..highSeconds
            /\ record.attempts \in lowAttempts..highAttempts
        matchOk(record) ==
            IF record.category = "SSID-based" THEN within(record, 1, 30, 1, 1000)
            ELSE IF record.category = "Router Default" THEN within(record, 1, 10, 1, 50)
            ELSE record.category = "Common Weak" /\ within(record, 1, 5, 1, 25)
        generatedOk(record) ==
            IF record.method = "SSID + Common Pattern"
            THEN within(record, 60, 360, 1000, 11000)
            ELSE record.method = "Vendor + Pattern"
                    /\ within(record, 120, 720, 5000, 55000)
        dictionaryOk(r) ==
            /\ \A i \in 1..Len(r.potentialMatches) : matchOk(r.potentialMatches[i])
            /\ \A i \in 1..Len(r.successfulCracks) : matchOk(r.successfulCracks[i])
        generationOk(r) ==
            \A i \in 1..Len(r.successfulGeneratedCracks) :
                generatedOk(r.successfulGeneratedCracks[i])
    IN  /\ DictionaryDone => dictionaryOk(result)
        /\ (op = "simulateIntelligentPasswordGeneration") => generationOk(result)
        /\ Assessed => /\ dictionaryOk(result.dictionaryResults)
                       /\ generationOk(result.generatedPasswordResults)

\* an assessment with a record of each of the five kinds
C18_Witness ==
    /\ Assessed
    /\ {result.dictionaryResults.potentialMatches[i].category :
            i \in 1..Len(result.dictionaryResults.potentialMatches)}
        = {"SSID-based", "Router Default", "Common Weak"}
    /\ {result.generatedPasswordResults.successfulGeneratedCracks[i].method :
            i \in 1..Len(result.generatedPasswordResults.successfulGeneratedCracks)}
        = {"SSID + Common Pattern", "Vendor + Pattern"}

\* C19: for every non-empty SSID, whatever its letter case, the SSID
\* templates are instantiated with the lower-cased SSID, so that an
\* SSID-based match for lowercase(ssid) + "123" is recorded.
C19_LowercaseSsidMatchRecorded ==
    (DictionaryDone /\ args.ssid # "") =>
        \E i \in 1..Len(result.potentialMatches) :
            /\ result.potentialMatches[i].category = "SSID-based"
            /\ result.potentialMatches[i].password = toLowerCase(args.ssid) \o "123"

\* C20: applyLeetSpeak chooses a substitute for each occurrence of a
\* letter on its own, so every string obtained by replacing each
\* occurrence of a substitutable letter by any one of its substitutes is
\* a possible output.
C20_EveryCombinationPossible ==
    op = "applyLeetSpeak" =>
        LET word == toLowerCase(args.word)
            substitutes(c) ==
                IF \E k \in 1..Len(substitutions) : substitutions[k].letter = c
                THEN LET k == CHOOSE k \in 1..Len(substitutions) :
                                    substitutions[k].letter = c
                     IN  {substitutions[k].replacements[j] :
                            j \in 1..Len(substitutions[k].replacements)}
                ELSE {c}
            choices ==
                {choice \in [1..Len(word) -> {"@", "4", "3", "1", "!", "0", "$", "5",
                                               "7", "9"} \cup {charAt(word, i - 1) :
                                                                i \in 1..Len(word)}] :
                    \A i \in 1..Len(word) : choice[i] \in substitutes(charAt(word, i - 1))}
            written(choice) ==
                LET f[i \in 0..Len(word)] ==
                        IF i = 0 THEN "" ELSE f[i - 1] \o choice[i]
                IN  f[Len(word)]
            \* one Math.random() value per table entry, each the least or the
            \* greatest the model has
            draws == [1..Len(substitutions) -> {0, RandDen - 1}]
        IN  \A choice \in choices :
                \E rng \in draws : applyLeetSpeak(args.word, rng, 0) = written(choice)

\* C21: no progress percentage the legacy simulator reports is above 100:
\* the progressAfterOneHour field is the percentage capped at 100, like the
\* label of the progress bar.
C21_ProgressNeverExceeds100 ==
    BruteForceDone => ~result.attackSimulation.progressAfterOneHour.exceeds100

\* C22: every call of simulateBruteForceAttack that gets past the charset
\* lookup, whatever the requested timeLimit, returns a progress bar of
\* exactly 30 cells: between 0 and 30 filled cells followed by the empty
\* ones.
C22_BarHas30Cells ==
    (op = "simulateBruteForceAttack" /\ result.status # "TypeError") =>
        /\ result.status = "ok"
        /\ \E filledBars \in 0..30 :
              result.attackSimulation.progressVisualization =
                  "[" \o repeat("#", filledBars) \o repeat("-", 30 - filledBars) \o "]"

C24_SevenTiers ==
    op = "assessAttackFeasibility" =>
        LET s == args.secondsNeeded
        IN  result.value =
                IF s < 3600 THEN "CRITICAL - Password can be broken in less than an hour"
                ELSE IF s < 86400 THEN "HIGH RISK - Password can be broken in less than a day"
                ELSE IF s < 604800 THEN "RISKY - Password can be broken in less than a week"
                ELSE IF s < 2592000 THEN "MODERATE - Password would take up to a month to break"
                ELSE IF s < 31536000 THEN "LOW RISK - Password would take months to break"
                ELSE IF s < 315360000 THEN "STRONG - Password would take years to break"
                ELSE "VERY STRONG - Password would take decades to break"

\* exactly one day is needed, and the tier is the one above HIGH RISK
C24_Witness ==
    /\ op = "assessAttackFeasibility"
    /\ args.secondsNeeded = 86400
    /\ result.value = "RISKY - Password can be broken in less than a week"

\* the generation simulator has returned a result
GenerationDone == op = "simulateIntelligentPasswordGeneration" /\ result.status = "ok"

\* successfulGeneratedCracks is two 'SSID + Common Pattern' entries when
\* the SSID is not empty, followed by one 'Vendor + Pattern' entry when
\* withVendorEntry holds, and nothing else; it is empty when
\* estimatedSuccessRate is not above 25
GeneratedCracksAre(withVendorEntry) ==
    LET cracks == result.successfulGeneratedCracks
        ssidEntries == IF args.ssid # "" THEN 2 ELSE 0
        vendorEntries == IF withVendorEntry THEN 1 ELSE 0
    IN  /\ result.estimatedSuccessRate <= 25 => cracks = << >>
        /\ result.estimatedSuccessRate > 25 =>
            /\ Len(cracks) = ssidEntries + vendorEntries
            /\ \A i \in 1..Len(cracks) :
                  cracks[i].method = IF i <= ssidEntries THEN "SSID + Common Pattern"
                                     ELSE "Vendor + Pattern"

\* C25 as stated: the 'Vendor + Pattern' entry is present only when the
\* vendor is a known one, a vendor of the router-defaults table.
C25_VendorEntryOnlyForKnownVendor ==
    GenerationDone =>
        GeneratedCracksAre(~args.routerInfo.isNull
                              /\ args.routerInfo.vendor \in DOMAIN routerDefaults)

\* C25, amended: successfulGeneratedCracks holds two 'SSID + Common Pattern'
\* entries when the SSID is not empty, followed by one 'Vendor + Pattern'
\* entry when routerInfo carries a non-empty vendor string, in the table or
\* not; it is empty when estimatedSuccessRate is not above 25.
C25_VendorEntryForAnyVendor ==
    GenerationDone =>
        GeneratedCracksAre(~args.routerInfo.isNull /\ args.routerInfo.vendor # "")

\* a vendor outside the table, and its entry after the two SSID entries
C25_Witness ==
    /\ GenerationDone
    /\ args.ssid = "HomeWiFi"
    /\ args.routerInfo = Router("Generic")
    /\ Len(result.successfulGeneratedCracks) = 3
    /\ result.successfulGeneratedCracks[3].method = "Vendor + Pattern"
    /\ result.successfulGeneratedCracks[3].password = "generichome25"

\* the estimate the claim gives for a vulnerability level and an encryption
CrackTimeTable(vulnerabilityLevel, encryption) ==
    IF vulnerabilityLevel = "HIGH" THEN "Minutes to hours (weak password detected)"
    ELSE IF vulnerabilityLevel = "MEDIUM" THEN "Hours to days (moderate password strength)"
    ELSE IF encryption = "OPEN" THEN "Instant (no password)"
    ELSE IF encryption = "WEP" THEN "1-10 minutes (regardless of password)"
    ELSE IF encryption = "WPA" THEN "1 hour - 1 week (depending on password)"
    ELSE IF encryption = "WPA2" THEN "1 day - 100 years (depending on password)"
    ELSE IF encryption = "WPA3" THEN "10 years - never (with strong password)"
    ELSE "Unknown"

C28_NeverLow ==
    Assessed =>
        /\ result.generatedPasswordResults.estimatedSuccessRate = 35
        /\ result.overallAssessment.vulnerabilityLevel \in {"MEDIUM", "HIGH"}
        /\ result.riskLevel \in {"MEDIUM", "HIGH", "CRITICAL"}

\* a WPA3 network of a vendor outside the table, no dictionary match: MEDIUM
C28_Witness ==
    /\ Assessed
    /\ args.networkInfo.encryption = "WPA3"
    /\ result.dictionaryResults.potentialMatches = << >>
    /\ result.overallAssessment.vulnerabilityLevel = "MEDIUM"
    /\ result.riskLevel = "MEDIUM"

\* C29: the password of every potentialMatches entry of a dictionary
\* result, whatever its category, is one of the deduplicated candidates
\* that testedPasswords counts.
C29_MatchesAreCandidates ==
    DictionaryDone =>
        LET passwordList == uniq(dictionaryCandidates(args.ssid, args.routerInfo))
        IN  /\ result.testedPasswords = Len(passwordList)
            /\ \A k \in 1..Len(result.potentialMatches) :
                  includes(passwordList, result.potentialMatches[k].password)

\* a result with a match of each of the three categories
C29_Witness ==
    /\ DictionaryDone
    /\ \A category \in {"SSID-based", "Router Default", "Common Weak"} :
          \E k \in 1..Len(result.potentialMatches) :
              result.potentialMatches[k].category = category

\* the unit or units that go with a feasibility tier
UnitsOfTier(tier) ==
    IF tier = "CRITICAL - Password can be broken in less than an hour"
    THEN {"seconds", "minutes"}
    ELSE IF tier = "HIGH RISK - Password can be broken in less than a day" THEN {"hours"}
    ELSE IF tier = "RISKY - Password can be broken in less than a week" THEN {"days"}
    ELSE IF tier = "MODERATE - Password would take up to a month to break" THEN {"weeks"}
    ELSE IF tier = "LOW RISK - Password would take months to break" THEN {"months"}
    ELSE IF tier = "STRONG - Password would take years to break" THEN {"years"}
    ELSE IF tier = "VERY STRONG - Password would take decades to break" THEN {"decades"}
    ELSE {}

\* C30: for the same secondsToExhaust the feasibility tier and the unit of
\* formatTimeEstimate agree: CRITICAL with seconds or minutes, HIGH RISK
\* with hours, RISKY with days, MODERATE with weeks, LOW RISK with months,
\* STRONG with years, VERY STRONG with decades; in every simulation result
\* and at every threshold.
C30_TierAndUnitAgree ==
    /\ BruteForceDone =>
            result.attackSimulation.estimatedTimeToBreak
                \in UnitsOfTier(result.attackSimulation.feasibilityAssessment)
    /\ op = "formatTimeEstimate" =>
            result.value \in UnitsOfTier(
                assessAttackFeasibility(wholeSeconds(args.secondsNeeded), 1))
    /\ op = "assessAttackFeasibility" =>
            formatTimeEstimate(wholeSeconds(args.secondsNeeded), 1)
                \in UnitsOfTier(result.value)

\* exactly one hour: the unit is hours and the tier HIGH RISK
C30_Witness ==
    /\ op = "formatTimeEstimate"
    /\ args.secondsNeeded = 3600
    /\ result.value = "hours"
    /\ tierRank(assessAttackFeasibility(wholeSeconds(3600), 1)) = 2

====
